---- MODULE Spec2Model ----
(***************************************************************************)
(* ssm-editor (cli.py): fetch the parameters under a path, write them to   *)
(* a temporary key=value file, let a human edit it, reparse it, diff it    *)
(* against the fetched snapshot and put the changed keys back.             *)
(*                                                                         *)
(* Strings are sequences of one-character strings.  A Python dict is a     *)
(* sequence of records [k, v] with distinct k, in insertion order.         *)
(***************************************************************************)
EXTENDS Integers, Sequences, FiniteSets, TLC

VARIABLES pc, path, editor, remote, served, pages, params, tmp_exists, file,
          updated_data, idx, changes, puts, store

vars == <<pc, path, editor, remote, served, pages, params, tmp_exists, file,
          updated_data, idx, changes, puts, store>>

(* ------------------------------ bounds --------------------------------- *)
MaxDepth == 2
MaxEntries == 2
MaxPages == 3
MaxEdits == 2
MaxDocLen == 7
MaxRTEntries == 2
MaxRTSize == 3

(* --------------------------- small input sets --------------------------- *)
Segs == {<<"a">>, <<"b">>}
Paths == {<<"/">>, <<"/", "a", "/">>}
Editors == {"code", "vi"}
RemoteValue == <<"1">>
EditValue == <<"2">>
NewKey == <<"c">>
DocChars == {"x", "=", " ", "\n"}

(* ------------------------------ strings --------------------------------- *)
None == <<"<None>">>
Whitespace == {" ", "\n", "\t", "\r"}
LineBreaks == {"\n", "\r"}

Strings(chars, n) == UNION {[1..m -> chars] : m \in 0..n}

Min(S) == CHOOSE i \in S : \A j \in S : i <= j

Max(S) == CHOOSE i \in S : \A j \in S : j <= i

\* start positions of the occurrences of sub in s
Occ(s, sub) == {i \in 1..(Len(s) - Len(sub) + 1) : SubSeq(s, i, i + Len(sub) - 1) = sub}

RECURSIVE LStrip(_)
LStrip(s) == IF s # <<>> /\ Head(s) \in Whitespace THEN LStrip(Tail(s)) ELSE s

RECURSIVE RStrip(_)
RStrip(s) ==
  IF s # <<>> /\ s[Len(s)] \in Whitespace THEN RStrip(SubSeq(s, 1, Len(s) - 1)) ELSE s

\* str.strip()
Strip(s) == RStrip(LStrip(s))

(* ------------------------------- dicts ---------------------------------- *)
Keys(d) == {d[i].k : i \in DOMAIN d}

\* d.get(key)
DictGet(d, key) ==
  IF key \in Keys(d) THEN d[CHOOSE i \in DOMAIN d : d[i].k = key].v ELSE None

\* d[key] = val: an existing key keeps its place, a new key goes last
DictSet(d, key, val) ==
  IF key \in Keys(d)
  THEN [i \in DOMAIN d |-> IF d[i].k = key THEN [k |-> key, v |-> val] ELSE d[i]]
  ELSE Append(d, [k |-> key, v |-> val])

\* the mapping a dict stands for (dict equality ignores order)
AsMap(d) == {<<d[i].k, d[i].v>> : i \in DOMAIN d}

(* ------------------------ fetch_parameters_by_path ---------------------- *)
\* param['Name'].split(path)[1]: the text between the first occurrence of
\* path and the next one (or the end of the name)
RelativeKey(name, p) ==
  LET rest == SubSeq(name, Min(Occ(name, p)) + Len(p), Len(name))
  IN  IF Occ(rest, p) = {} THEN rest ELSE SubSeq(rest, 1, Min(Occ(rest, p)) - 1)

\* for param in response.get('Parameters', []): parameters[...] = param['Value']
RECURSIVE AddPage(_, _, _)
AddPage(d, page, p) ==
  IF page = <<>> THEN d
  ELSE AddPage(DictSet(d, RelativeKey(Head(page).Name, p), Head(page).Value), Tail(page), p)

\* one iteration of the while loop: the service returns the next n entries
\* and a NextToken (more) or none; served is the position the token stands
\* for, pages counts the requests; both are gone when the function returns
FetchPage ==
  /\ pc = "fetch"
  /\ pages < MaxPages
  /\ \E n \in 0..(Len(remote) - served), more \in BOOLEAN :
       /\ served + n < Len(remote) => more
       /\ pages + 1 = MaxPages => ~more
       /\ params' = AddPage(params, SubSeq(remote, served + 1, served + n), path)
       /\ served' = IF more THEN served + n ELSE 0
       /\ pages' = IF more THEN pages + 1 ELSE 0
       /\ pc' = IF more THEN "fetch" ELSE "serialize"
  /\ UNCHANGED <<path, editor, remote, tmp_exists, file, updated_data, idx,
                 changes, puts, store>>

\* ssm.get_parameters_by_path raises: nothing catches it, the run aborts
FetchFail ==
  /\ pc = "fetch"
  /\ pc' = "fetch_failed"
  /\ UNCHANGED <<path, editor, remote, served, pages, params, tmp_exists, file,
                 updated_data, idx, changes, puts, store>>

(* ----------------------- edit_parameters_in_editor ---------------------- *)
\* mutant: the line terminator is forgotten
RECURSIVE SerializeText_NoNewline(_)
SerializeText_NoNewline(d) ==
  IF d = <<>> THEN <<>>
  ELSE Head(d).k \o <<"=">> \o Head(d).v \o SerializeText_NoNewline(Tail(d))

RECURSIVE SerializeText(_)
SerializeText(d) ==
  IF d = <<>> THEN <<>>
  ELSE Head(d).k \o <<"=">> \o Head(d).v \o <<"\n">> \o SerializeText(Tail(d))

\* the with-block: a NamedTemporaryFile(delete=False) holding one k=v line
\* per entry
Serialize ==
  /\ pc = "serialize"
  /\ tmp_exists' = TRUE
  /\ file' = SerializeText(params)
  /\ pc' = "launch"
  /\ UNCHANGED <<path, editor, remote, served, pages, params, updated_data, idx,
                 changes, puts, store>>

\* subprocess.Popen / subprocess.call: the process starts, or the call
\* raises and the run aborts with the file still on disk
EditorLaunch ==
  /\ pc = "launch"
  /\ \E started \in BOOLEAN :
       pc' = IF ~started THEN "editor_failed"
             ELSE IF editor = "code" THEN "wait_enter" ELSE "wait_exit"
  /\ UNCHANGED <<path, editor, remote, served, pages, params, tmp_exists, file,
                 updated_data, idx, changes, puts, store>>

\* for line in f: the lines of the file, each with its terminator
RECURSIVE FileLines(_)
FileLines(f) ==
  IF f = <<>> THEN <<>>
  ELSE LET nl == {i \in DOMAIN f : f[i] = "\n"}
           e == IF nl = {} THEN Len(f) ELSE Min(nl)
       IN  <<SubSeq(f, 1, e)>> \o FileLines(SubSeq(f, e + 1, Len(f)))

RECURSIVE Concat(_)
Concat(ls) == IF ls = <<>> THEN <<>> ELSE Head(ls) \o Concat(Tail(ls))

\* the human's edits: give a line a new value, delete a line, add a key=value
\* line, add a line without '='
ChangeValue(line) ==
  IF "=" \in {line[i] : i \in DOMAIN line}
  THEN SubSeq(line, 1, Min({i \in DOMAIN line : line[i] = "="})) \o EditValue \o <<"\n">>
  ELSE line

OneEdit(f) ==
  LET ls == FileLines(f)
  IN  {Concat([ls EXCEPT ![i] = ChangeValue(ls[i])]) : i \in DOMAIN ls}
        \cup {Concat([ls EXCEPT ![i] = <<>>]) : i \in DOMAIN ls}
        \cup {f \o NewKey \o <<"=">> \o EditValue \o <<"\n">>}
        \cup {f \o NewKey \o <<"\n">>}

RECURSIVE EditedDocs(_, _)
EditedDocs(docs, n) ==
  IF n = 0 THEN docs ELSE EditedDocs(docs \cup UNION {OneEdit(f) : f \in docs}, n - 1)

\* the human saves one of docs and closes the editor: Enter is pressed at
\* the input() prompt, or the child that subprocess.call waits for exits
EditorCloses(docs) ==
  /\ pc \in {"wait_enter", "wait_exit"}
  /\ \E doc \in docs : file' = doc
  /\ pc' = "reparse"
  /\ UNCHANGED <<path, editor, remote, served, pages, params, tmp_exists,
                 updated_data, idx, changes, puts, store>>

EditorClose == EditorCloses(EditedDocs({file}, MaxEdits))

\* mutant: the line is split at its last '='
SplitLast(t) ==
  LET e == Max({i \in DOMAIN t : t[i] = "="})
  IN  [k |-> Strip(SubSeq(t, 1, e - 1)), v |-> Strip(SubSeq(t, e + 1, Len(t)))]

\* key, value = line.split('=', 1); key.strip(), value.strip()
SplitKV(t) ==
  LET e == Min({i \in DOMAIN t : t[i] = "="})
  IN  [k |-> Strip(SubSeq(t, 1, e - 1)), v |-> Strip(SubSeq(t, e + 1, Len(t)))]

\* the body of the for loop over the file's lines
ParseLine(d, line) ==
  LET t == Strip(line)
  IN  IF t = <<>> \/ "=" \notin {t[i] : i \in DOMAIN t} THEN d
      ELSE DictSet(d, SplitKV(t).k, SplitKV(t).v)

RECURSIVE ParseLines(_, _)
ParseLines(d, ls) ==
  IF ls = <<>> THEN d ELSE ParseLines(ParseLine(d, Head(ls)), Tail(ls))

\* mutant: the file is read back but never unlinked
Reparse_NoUnlink ==
  /\ pc = "reparse"
  /\ updated_data' = ParseLines(<<>>, FileLines(file))
  /\ pc' = "diff"
  /\ UNCHANGED <<path, editor, remote, served, pages, params, tmp_exists, file,
                 idx, changes, puts, store>>

\* read the file back, os.unlink it, return updated_data
Reparse ==
  /\ pc = "reparse"
  /\ updated_data' = ParseLines(<<>>, FileLines(file))
  /\ tmp_exists' = FALSE
  /\ pc' = "diff"
  /\ UNCHANGED <<path, editor, remote, served, pages, params, file, idx,
                 changes, puts, store>>

(* --------------------------------- main --------------------------------- *)
\* mutant: every key of the edited snapshot counts as changed
Changed_Always(p, k, v) == TRUE

\* if params.get(k) != v
Changed(p, k, v) == DictGet(p, k) # v

\* mutant: the keys the human deleted are visited too, with an empty value
DiffItems_WithDeleted(p, u) ==
  u \o [i \in 1..Len(SelectSeq(p, LAMBDA e : e.k \notin Keys(u))) |->
         [k |-> SelectSeq(p, LAMBDA e : e.k \notin Keys(u))[i].k, v |-> <<>>]]

\* for k, v in updated_params.items()
DiffItems(p, u) == u

Put(s, name, val) == [n \in DOMAIN s \cup {name} |-> IF n = name THEN val ELSE s[n]]

\* one iteration of the diff loop: an unchanged key is skipped; params[k] of
\* an added key raises KeyError outside the try; otherwise the change is
\* recorded and put_parameter is called, its failure caught and printed
DiffStep ==
  /\ pc = "diff"
  /\ idx <= Len(DiffItems(params, updated_data))
  /\ LET k == DiffItems(params, updated_data)[idx].k
         v == DiffItems(params, updated_data)[idx].v
     IN  IF ~Changed(params, k, v)
         THEN /\ idx' = idx + 1
              /\ UNCHANGED <<pc, changes, puts, store>>
         ELSE IF k \notin Keys(params)
         THEN /\ pc' = "keyerror"
              /\ UNCHANGED <<idx, changes, puts, store>>
         ELSE /\ changes' = Append(changes, <<k, DictGet(params, k), v>>)
              /\ \E ok \in BOOLEAN :
                   /\ puts' = Append(puts, [Name |-> path \o k, Key |-> k, Value |-> v, ok |-> ok])
                   /\ store' = IF ok THEN Put(store, path \o k, v) ELSE store
              /\ idx' = idx + 1
              /\ UNCHANGED pc
  /\ UNCHANGED <<path, editor, remote, served, pages, params, tmp_exists, file,
                 updated_data>>

\* the loop is over: the report is printed and main returns
Finish ==
  /\ pc = "diff"
  /\ idx > Len(DiffItems(params, updated_data))
  /\ pc' = "done"
  /\ UNCHANGED <<path, editor, remote, served, pages, params, tmp_exists, file,
                 updated_data, idx, changes, puts, store>>

(* ------------------------------ the run --------------------------------- *)
RECURSIVE JoinSegs(_)
JoinSegs(ss) ==
  IF Len(ss) = 1 THEN Head(ss) ELSE Head(ss) \o <<"/">> \o JoinSegs(Tail(ss))

RECURSIVE SetToSeq(_)
SetToSeq(S) ==
  IF S = {} THEN <<>>
  ELSE LET x == CHOOSE y \in S : TRUE IN <<x>> \o SetToSeq(S \ {x})

\* the parameter names the store may hold under a path, in the order the
\* service lists them
NamesUnder(p) ==
  SetToSeq({p \o JoinSegs(ss) : ss \in UNION {[1..d -> Segs] : d \in 1..MaxDepth}})

\* what the service holds under p: at most MaxEntries distinct names
Listings(p) ==
  LET names == NamesUnder(p)
  IN  {[i \in DOMAIN pick |-> [Name |-> names[pick[i]], Value |-> RemoteValue]] :
         pick \in {q \in UNION {[1..m -> DOMAIN names] : m \in 0..MaxEntries} :
                     \A i \in DOMAIN q : \A j \in DOMAIN q : i < j => q[i] < q[j]}}

StoreOf(listing) ==
  [n \in {listing[i].Name : i \in DOMAIN listing} |->
     listing[CHOOSE i \in DOMAIN listing : listing[i].Name = n].Value]

InitRest ==
  /\ served = 0
  /\ pages = 0
  /\ idx = 1
  /\ changes = <<>>
  /\ puts = <<>>
  /\ updated_data = <<>>

Init ==
  /\ pc = "fetch"
  /\ path \in Paths
  /\ editor \in Editors
  /\ remote \in Listings(path)
  /\ store = StoreOf(remote)
  /\ params = <<>>
  /\ tmp_exists = FALSE
  /\ file = <<>>
  /\ InitRest

Next ==
  \/ FetchPage
  \/ FetchFail
  \/ Serialize
  \/ EditorLaunch
  \/ EditorClose
  \/ Reparse
  \/ DiffStep
  \/ Finish

Spec == Init /\ [][Next]_vars

(* -------------------- the reparse on arbitrary documents ---------------- *)
\* the editor has just closed on an arbitrary document
InitParse ==
  /\ pc = "reparse"
  /\ file \in Strings(DocChars, MaxDocLen)
  /\ tmp_exists = TRUE
  /\ path = <<"/">>
  /\ editor = "vi"
  /\ remote = <<>>
  /\ store = StoreOf(remote)
  /\ params = <<>>
  /\ InitRest

NextParse == Reparse

SpecParse == InitParse /\ [][NextParse]_vars

(* ------------------- the round trip on arbitrary snapshots -------------- *)
\* the entries [k, v] whose key and value hold at most n characters together
RTEntries(n) ==
  UNION {{[k |-> SubSeq(s, 1, c), v |-> SubSeq(s, c + 1, Len(s))] : c \in 0..Len(s)} :
         s \in Strings(DocChars, n)}

\* every dict of at most m entries whose keys and values hold at most n
\* characters together
RECURSIVE RTSnapshots(_, _)
RTSnapshots(m, n) ==
  IF m = 0 THEN {<<>>}
  ELSE {<<>>} \cup
       UNION {{<<e>> \o d : d \in {r \in RTSnapshots(m - 1, n - Len(e.k) - Len(e.v)) :
                                      e.k \notin Keys(r)}} :
              e \in RTEntries(n)}

\* main has fetched an arbitrary snapshot
InitRT ==
  /\ pc = "serialize"
  /\ params \in RTSnapshots(MaxRTEntries, MaxRTSize)
  /\ tmp_exists = FALSE
  /\ file = <<>>
  /\ path = <<"/">>
  /\ editor \in Editors
  /\ remote = <<>>
  /\ store = StoreOf(remote)
  /\ InitRest

\* the human closes the editor without touching the file
CloseUnedited == EditorCloses({file})

NextRT ==
  \/ Serialize
  \/ EditorLaunch
  \/ CloseUnedited
  \/ Reparse

SpecRT == InitRT /\ [][NextRT]_vars

(* ------------------------------- claims --------------------------------- *)
DiffStarted == pc \in {"diff", "done", "keyerror"}

RunEnded == pc \in {"done", "keyerror"}

IndexOfKey(d, key) == CHOOSE i \in DOMAIN d : d[i].k = key

\* the ChangeSet of the data model: the edited entries whose value differs
\* from original.get(key), in the edited snapshot's order
ChangeSetOf(p, u) ==
  LET ch == SelectSeq(u, LAMBDA e : e.v # DictGet(p, e.k))
  IN  [i \in DOMAIN ch |-> <<ch[i].k, DictGet(p, ch[i].k), ch[i].v>>]

\* C1: once the diff has ended it has completed normally, the ChangeSet lists
\* exactly the edited keys whose value differs from the original's (an added
\* key with old value absent), in the edited order, and a write was attempted
\* for each of them.
C1_DiffListsChangedAndAddedKeys ==
  RunEnded =>
    /\ pc = "done"
    /\ changes = ChangeSetOf(params, updated_data)
    /\ [i \in DOMAIN puts |-> puts[i].Key] = [i \in DOMAIN changes |-> changes[i][1]]

\* C2: once the edit session has ended, by returning or by a failed editor
\* launch, the temporary file no longer exists.
C2_TempFileDeletedOnEveryExit ==
  pc \in {"editor_failed", "diff", "done", "keyerror"} => ~tmp_exists

\* C3: when a run in which some write failed has ended, it ended normally and
\* a write was attempted for every changed key that comes after the failing
\* one in the edited snapshot.
C3_FailedWriteDoesNotHaltBatch ==
  RunEnded =>
    \A i \in DOMAIN puts :
      ~puts[i].ok =>
        /\ pc = "done"
        /\ \A j \in DOMAIN updated_data :
             (/\ j > IndexOfKey(updated_data, puts[i].Key)
              /\ updated_data[j].v # DictGet(params, updated_data[j].k))
               => \E m \in DOMAIN puts : puts[m].Key = updated_data[j].k

\* C4: every attempted write is for a key whose edited value differs from its
\* original value and carries the edited value; when the edited snapshot
\* equals the original one the run records no change and attempts no write.
C4_NoWriteForUnchangedKey ==
  /\ \A i \in DOMAIN puts :
       /\ puts[i].Key \in Keys(updated_data)
       /\ DictGet(updated_data, puts[i].Key) # DictGet(params, puts[i].Key)
       /\ puts[i].Value = DictGet(updated_data, puts[i].Key)
  /\ (DiffStarted /\ AsMap(updated_data) = AsMap(params)) => (puts = <<>> /\ changes = <<>>)

\* a finished run that wrote one key and left another, unchanged, alone
C4_Witness ==
  /\ pc = "done"
  /\ puts # <<>>
  /\ \E i \in DOMAIN updated_data :
       DictGet(params, updated_data[i].k) = updated_data[i].v

\* C6: when the fetch loop has ended, the snapshot holds exactly as many keys
\* as the service listed distinct names, however the listing was paged.
C6_FetchReturnsOneKeyPerName ==
  pc \notin {"fetch", "fetch_failed"} =>
    /\ Cardinality(Keys(params)) = Len(remote)
    /\ AsMap(params) = AsMap(AddPage(<<>>, remote, path))

\* C8: a key of the original snapshot that the edited snapshot lacks is in no
\* change and in no attempted write, no write targets the name it was fetched
\* from, and the store still holds that name's fetched value.
C8_DeletedKeyUntouched ==
  DiffStarted =>
    \A j \in DOMAIN remote :
      LET k == RelativeKey(remote[j].Name, path)
      IN  (k \in Keys(params) /\ k \notin Keys(updated_data)) =>
            /\ \A i \in DOMAIN changes : changes[i][1] # k
            /\ \A i \in DOMAIN puts :
                 puts[i].Key # k /\ puts[i].Name # remote[j].Name /\ puts[i].Name # path \o k
            /\ store[remote[j].Name] = remote[j].Value

\* a finished run in which the human deleted one key and another was written
C8_Witness ==
  /\ pc = "done"
  /\ \E i \in DOMAIN puts : puts[i].ok
  /\ \E j \in DOMAIN remote :
       /\ RelativeKey(remote[j].Name, path) \in Keys(params)
       /\ RelativeKey(remote[j].Name, path) \notin Keys(updated_data)

\* C9: a write is attempted only once the whole listing has been fetched, the
\* editor has closed, the file has been reparsed and the file is gone; until
\* then, and when the fetch or the editor launch fails, no write has been
\* attempted and the store is as fetched.
C9_NoWriteBeforeCleanup ==
  /\ puts # <<>> =>
       /\ DiffStarted
       /\ ~tmp_exists
       /\ AsMap(params) = AsMap(AddPage(<<>>, remote, path))
       /\ updated_data = ParseLines(<<>>, FileLines(file))
  /\ ~DiffStarted => (puts = <<>> /\ changes = <<>> /\ store = StoreOf(remote))

\* the write-back is under way: one write done, the file already gone
C9_Witness ==
  /\ pc = "diff"
  /\ Len(puts) = 1
  /\ idx <= Len(updated_data)
  /\ ~tmp_exists

\* C10: a write made for the key of a fetched entry targets that entry's
\* name: for every fetched name n, path + RelativeKey(n) = n, a write for
\* RelativeKey(n) goes to n, and distinct fetched names have distinct
\* relative keys.
C10_WriteTargetsFetchedName ==
  puts # <<>> =>
    /\ \A j \in DOMAIN remote :
         /\ path \o RelativeKey(remote[j].Name, path) = remote[j].Name
         /\ \A i \in DOMAIN puts :
              puts[i].Key = RelativeKey(remote[j].Name, path) => puts[i].Name = remote[j].Name
    /\ \A i \in DOMAIN remote : \A j \in DOMAIN remote :
         i # j => RelativeKey(remote[i].Name, path) # RelativeKey(remote[j].Name, path)

\* the reparse against the stated rules, read off the document itself
LineStarts(f) == {s \in DOMAIN f : s = 1 \/ f[s - 1] = "\n"}

RawLine(f, s) == SubSeq(f, s, Min({e \in s..Len(f) : f[e] = "\n" \/ e = Len(f)}))

Trimmed(l) ==
  LET ns == {i \in DOMAIN l : l[i] \notin Whitespace}
  IN  IF ns = {} THEN <<>> ELSE SubSeq(l, Min(ns), Max(ns))

EqAt(t) == {i \in DOMAIN t : t[i] = "="}

KeptStarts(f) == {s \in LineStarts(f) : EqAt(Trimmed(RawLine(f, s))) # {}}

KeyAt(f, s) ==
  LET t == Trimmed(RawLine(f, s)) IN Trimmed(SubSeq(t, 1, Min(EqAt(t)) - 1))

ValueAt(f, s) ==
  LET t == Trimmed(RawLine(f, s)) IN Trimmed(SubSeq(t, Min(EqAt(t)) + 1, Len(t)))

\* C7: the reparse of any document ends, and the edited snapshot holds exactly
\* the keys of the lines that, trimmed, contain '=', each key being the
\* trimmed text before the line's first '=' and its value the trimmed text
\* after it, taken from the last line that has the key.
C7_PermissiveReparse ==
  pc = "diff" =>
    /\ Keys(updated_data) = {KeyAt(file, s) : s \in KeptStarts(file)}
    /\ Cardinality(Keys(updated_data)) = Len(updated_data)
    /\ \A s \in KeptStarts(file) :
         (\A r \in KeptStarts(file) : r > s => KeyAt(file, r) # KeyAt(file, s))
           => DictGet(updated_data, KeyAt(file, s)) = ValueAt(file, s)

\* a reparsed document with a dropped line, a line with two '=' and a key
\* that two lines set to different values
C7_Witness ==
  /\ pc = "diff"
  /\ LineStarts(file) # KeptStarts(file)
  /\ \E s \in KeptStarts(file) : Cardinality(EqAt(Trimmed(RawLine(file, s)))) > 1
  /\ \E s \in KeptStarts(file) : \E r \in KeptStarts(file) :
       r > s /\ KeyAt(file, r) = KeyAt(file, s) /\ ValueAt(file, r) # ValueAt(file, s)

\* C5 as stated: reparsing the serialized snapshot, unedited, gives back the
\* snapshot, whatever strings its keys and values are.
C5_RoundTripAnySnapshot ==
  pc = "diff" => AsMap(updated_data) = AsMap(params)

HasAny(s, chars) == \E i \in DOMAIN s : s[i] \in chars

Untrimmed(s) == s # <<>> /\ (s[1] \in Whitespace \/ s[Len(s)] \in Whitespace)

\* no key holds '=' or a line break, no value holds a line break, and no key
\* or value starts or ends with whitespace
LineSafe(d) ==
  \A i \in DOMAIN d :
    /\ ~HasAny(d[i].k, LineBreaks \cup {"="})
    /\ ~HasAny(d[i].v, LineBreaks)
    /\ ~Untrimmed(d[i].k)
    /\ ~Untrimmed(d[i].v)

\* C5 amended: reparsing the serialized snapshot, unedited, gives back the
\* snapshot when no key holds '=' or a line break, no value holds a line
\* break and no key or value starts or ends with whitespace.
C5_RoundTripLineSafe ==
  (pc = "diff" /\ LineSafe(params)) => AsMap(updated_data) = AsMap(params)

\* a two-entry snapshot with an '=' inside a value came back
C5_Witness ==
  /\ pc = "diff"
  /\ LineSafe(params)
  /\ Len(params) = 2
  /\ \E i \in DOMAIN params : HasAny(params[i].v, {"="})

====
